---- MODULE Spec2Model ----
(***************************************************************************)
(* Gap-up detection pipelines of run.py, run3.py, run4.py and app.py.      *)
(*                                                                         *)
(* A DataFrame is a sequence of rows; a row is a record whose fields are   *)
(* the frame's columns plus ts, the Datetime index label.  A Timestamp is  *)
(* the record [d, t] (calendar day, intraday slot); a datetime.date is the *)
(* record [d].  Prices and volumes are whole numbers; a missing cell is    *)
(* NaN.  Quotients (percentages, rolling means) are kept exact as          *)
(* [num, den]; 0/0 is the quotient NaN.                                    *)
(***************************************************************************)
EXTENDS Integers, Sequences, FiniteSets, TLC

VARIABLES variant, file, pc, df, exc, printed, out, outDir

vars == <<variant, file, pc, df, exc, printed, out, outDir>>

(***************************************************************************)
(* Bounds of the model.                                                    *)
(***************************************************************************)
MaxRows == 3
MaxBandOpen == 131

(***************************************************************************)
(* Values.                                                                 *)
(***************************************************************************)
NaN == -1

Q(n, d) == [num |-> n, den |-> d]
NaNQ == Q(0, 0)
ZeroQ == Q(0, 1)
IsNaQ(q) == q.den = 0
\* q < k, q >= k, q = k for a quotient q with positive denominator; every
\* comparison with NaN is false.
QLt(q, k) == q.den # 0 /\ q.num < k * q.den
QGe(q, k) == q.den # 0 /\ q.num >= k * q.den
QEq(q, k) == q.den # 0 /\ q.num = k * q.den

IsNa(x) == x = NaN
\* Series comparison and arithmetic, element by element.
Gt(a, b) == a # NaN /\ b # NaN /\ a > b
Le(a, b) == a # NaN /\ b # NaN /\ a <= b
Sub(a, b) == IF a = NaN \/ b = NaN THEN NaN ELSE a - b
\* (a - b) / b * 100
PctChange(a, b) == IF a = NaN \/ b = NaN THEN NaNQ ELSE Q((a - b) * 100, b)
\* v > q for a number v and a quotient q
GtQ(v, q) == v # NaN /\ q.den # 0 /\ v * q.den > q.num

Min(S) == CHOOSE x \in S : \A y \in S : x <= y
Max(S) == CHOOSE x \in S : \A y \in S : y <= x

RECURSIVE SumSeq(_)
SumSeq(s) == IF s = <<>> THEN 0 ELSE Head(s) + SumSeq(Tail(s))

\* The rows of a frame at the positions in S, in frame order.
RECURSIVE PickFrom(_, _, _)
PickFrom(rows, S, i) ==
    IF i > Len(rows) THEN <<>>
    ELSE IF i \in S THEN <<rows[i]>> \o PickFrom(rows, S, i + 1)
    ELSE PickFrom(rows, S, i + 1)
Pick(rows, S) == PickFrom(rows, S, 1)

Without(r, cols) == [f \in (DOMAIN r) \ cols |-> r[f]]
With(r, s) == [f \in (DOMAIN r) \cup (DOMAIN s) |-> IF f \in DOMAIN s THEN s[f] ELSE r[f]]

(***************************************************************************)
(* Timestamps and dates.                                                   *)
(***************************************************************************)
Ts(d, t) == [d |-> d, t |-> t]
TsLt(a, b) == a.d < b.d \/ (a.d = b.d /\ a.t < b.t)
\* df.index.date
DateOf(ts) == [d |-> ts.d]
DateLt(a, b) == a.d < b.d

(***************************************************************************)
(* Input files.                                                            *)
(***************************************************************************)
DataCols == {"Open", "High", "Low", "Close", "Volume"}
CsvCols == DataCols \cup {"Datetime", "Adj Close"}

Candle(ts, o, h, l, c, v) ==
    [ts |-> ts, Open |-> o, High |-> h, Low |-> l, Close |-> c, Volume |-> v]

\* The calendar days of the data (day 3 has no candles) and the candles'
\* places within a day.
Days == {1, 2, 4}
Slots == {1, 2}
Stamps == {Ts(d, t) : d \in Days, t \in Slots}

\* open, high, low, close, volume
Profiles == { <<100, 110, 95, 100, 1000>>,
              <<105, 106, 99, 104, 2000>> }
HighProfiles == Profiles \cup { <<108, 108, 107, 108, 3000>> }
BlankProfiles == { <<NaN, 110, 95, 100, 1000>>,
                   <<105, 106, 99, NaN, 2000>> }

CandlesOf(profiles) ==
    {Candle(ts, p[1], p[2], p[3], p[4], p[5]) : ts \in Stamps, p \in profiles}

GoodFile(rows) == [exists |-> TRUE, cols |-> CsvCols, rows |-> rows, writable |-> TRUE]

\* One candle closing at 100, then the next day's first candle at each open.
BandFiles ==
    {GoodFile(<<Candle(Ts(1, 1), 100, 110, 95, 100, 1000),
                Candle(Ts(2, 1), o, o + 1, o - 1, o, 2000)>>) : o \in 99..MaxBandOpen}

TwoDays == <<Candle(Ts(1, 1), 100, 110, 95, 100, 1000),
             Candle(Ts(2, 1), 105, 106, 99, 104, 2000)>>

\* A missing file, a file lacking one column, an output folder that cannot
\* be written.
BrokenFiles ==
    {[exists |-> FALSE, cols |-> CsvCols, rows |-> TwoDays, writable |-> TRUE],
     [exists |-> TRUE, cols |-> CsvCols, rows |-> TwoDays, writable |-> FALSE]}
    \cup {[exists |-> TRUE, cols |-> CsvCols \ {c}, rows |-> TwoDays, writable |-> TRUE]
          : c \in CsvCols}

Variants == {"run", "run3", "run4", "app"}

(***************************************************************************)
(* load_stock_data                                                         *)
(***************************************************************************)
\* pd.read_csv(...).drop(...).set_index('Datetime'): the rows, with the data
\* columns the file has.
ReadCsv(f) ==
    [i \in 1..Len(f.rows) |->
        [c \in {"ts"} \cup (DataCols \cap f.cols) |-> f.rows[i][c]]]

\* What read_csv and drop raise: a missing file, a missing 'Datetime' to
\* parse, a missing 'Adj Close' to drop (app.py drops nothing).
LoadError(v, f) ==
    IF ~f.exists THEN "FileNotFoundError"
    ELSE IF "Datetime" \notin f.cols THEN "ValueError"
    ELSE IF v # "app" /\ "Adj Close" \notin f.cols THEN "KeyError"
    ELSE "none"

Perms(n) == {p \in [1..n -> 1..n] : \A i, j \in 1..n : i # j => p[i] # p[j]}

\* df.sort_index(): ascending by label.  An index already in order is left
\* as it is; otherwise the default kind is quicksort, which is not stable:
\* rows with equal labels come out in any order.
SortIndex(rows) ==
    LET n == Len(rows)
        ok(p) == \A i \in 1..(n - 1) : ~TsLt(rows[p[i + 1]].ts, rows[p[i]].ts)
    IN IF ok([i \in 1..n |-> i]) THEN {rows}
       ELSE {[i \in 1..n |-> rows[p[i]]] : p \in {q \in Perms(n) : ok(q)}}

\* df.index.duplicated(keep='first'), per position
Duplicated(rows) == {i \in 1..Len(rows) : \E j \in 1..(i - 1) : rows[j].ts = rows[i].ts}

\* run3.py: df[~df.index.duplicated(keep='first')]
DropDuplicated(rows) == Pick(rows, (1..Len(rows)) \ Duplicated(rows))

\* GroupBy.first() of one column: the first value of the group that is not
\* null.
FirstValid(rows, S, col) ==
    LET valid == {i \in S : rows[i][col] # NaN}
    IN IF valid = {} THEN NaN ELSE rows[Min(valid)][col]

\* run4.py: df.groupby(df.index).first(): one row per label, each column
\* aggregated on its own.
GroupByIndexFirst(rows) ==
    LET firsts == Pick(rows, (1..Len(rows)) \ Duplicated(rows))
        group(ts) == {i \in 1..Len(rows) : rows[i].ts = ts}
    IN [k \in 1..Len(firsts) |->
          [c \in DOMAIN firsts[k] |->
              IF c = "ts" THEN firsts[k].ts
              ELSE FirstValid(rows, group(firsts[k].ts), c)]]

\* The frame load_stock_data returns from the sorted rows.
Normalize(v, sorted) ==
    CASE v = "run3" -> DropDuplicated(sorted)
      [] v = "run4" -> IF Cardinality(Duplicated(sorted)) > 0
                       THEN GroupByIndexFirst(sorted) ELSE sorted

\* run4.py prints the number of duplicates it found.
LoadPrints(v, sorted) ==
    IF v = "run4" /\ Cardinality(Duplicated(sorted)) > 0
    THEN <<<<"duplicates", Cardinality(Duplicated(sorted))>>>> ELSE <<>>

(***************************************************************************)
(* calculate_previous_close                                                *)
(***************************************************************************)
\* df['Date'] = df.index.date
AddDate(rows) == [i \in 1..Len(rows) |-> With(rows[i], [Date |-> DateOf(rows[i].ts)])]

Dates(rows) == {rows[i].Date : i \in 1..Len(rows)}
Group(rows, date) == {i \in 1..Len(rows) : rows[i].Date = date}

\* The group's first value instead of its last.
GroupFirstValue(rows, date, col) ==
    LET valid == {i \in Group(rows, date) : rows[i][col] # NaN}
    IN IF valid = {} THEN NaN ELSE rows[Min(valid)][col]

\* groupby('Date')[col].last(): the group's last value that is not null.
GroupLast(rows, date, col) ==
    LET valid == {i \in Group(rows, date) : rows[i][col] # NaN}
    IN IF valid = {} THEN NaN ELSE rows[Max(valid)][col]

\* .shift(1) along the groups in key order: the value of the group before.
Shifted(rows, date, col) ==
    LET before == {e \in Dates(rows) : DateLt(e, date)}
    IN IF before = {} THEN NaN
       ELSE GroupLast(rows, CHOOSE e \in before : \A g \in before : ~DateLt(e, g), col)

\* df[df['Date'] == date].index.min()
FirstIdx(rows, date) ==
    LET g == Group(rows, date)
    IN rows[CHOOSE i \in g : \A j \in g : ~TsLt(rows[j].ts, rows[i].ts)].ts

\* groupby('Date').head(1): the positions of each group's first row.
HeadPositions(rows) ==
    {i \in 1..Len(rows) : \A j \in 1..(i - 1) : rows[j].Date # rows[i].Date}
FirstCandles(rows) == Pick(rows, HeadPositions(rows))

Window == 20
MinPeriods == 1

\* first_candles['Volume'].rolling(window=20, min_periods=1).mean().shift(1)
\* at position k of the first candles: the mean over positions k-20 .. k-1.
RollingMeanShifted(vols, k) ==
    LET win == {j \in 1..Len(vols) : k - Window <= j /\ j <= k - 1 /\ vols[j] # NaN}
        obs == Pick(vols, win)
    IN IF k = 1 \/ Len(obs) < MinPeriods THEN NaNQ ELSE Q(SumSeq(obs), Len(obs))

\* avg_volume keeps the index of first_candles: the Datetime labels of the
\* first candles.
AvgVolumeIndex(rows) ==
    LET fc == FirstCandles(rows) IN {fc[k].ts : k \in 1..Len(fc)}

\* avg_volume[key]
AvgVolumeAt(rows, key) ==
    LET fc == FirstCandles(rows)
        k == CHOOSE j \in 1..Len(fc) : fc[j].ts = key
    IN RollingMeanShifted([j \in 1..Len(fc) |-> fc[j].Volume], k)

\* if date in avg_volume.index: ... = avg_volume[date].  The key is a
\* datetime.date and the labels are Timestamps.
VolumeAvgFor(rows, date) ==
    IF date \in AvgVolumeIndex(rows) THEN AvgVolumeAt(rows, date) ELSE NaNQ

\* run.py: df.loc[df['Date'] == date, 'Prev_Day_Close'] = close
CalculatePreviousCloseRun(rows0) ==
    LET rows == AddDate(rows0)
    IN [i \in 1..Len(rows) |->
          With(rows[i], [Prev_Day_Close |-> Shifted(rows, rows[i].Date, "Close")])]

\* run4.py: df.loc[first_idx, 'Prev_Day_Close'] = close
CalculatePreviousCloseRun4(rows0) ==
    LET rows == AddDate(rows0)
    IN [i \in 1..Len(rows) |->
          With(rows[i],
               [Prev_Day_Close |->
                   IF rows[i].ts = FirstIdx(rows, rows[i].Date)
                   THEN Shifted(rows, rows[i].Date, "Close") ELSE NaN])]

\* run3.py: the three columns, on the first candle of each day
CalculatePreviousCloseRun3(rows0) ==
    LET rows == AddDate(rows0)
    IN [i \in 1..Len(rows) |->
          LET first == rows[i].ts = FirstIdx(rows, rows[i].Date)
          IN With(rows[i],
                  [Prev_Day_Close |->
                       IF first THEN Shifted(rows, rows[i].Date, "Close") ELSE NaN,
                   Prev_Day_High |->
                       IF first THEN Shifted(rows, rows[i].Date, "High") ELSE NaN,
                   Volume_Avg |->
                       IF first THEN VolumeAvgFor(rows, rows[i].Date) ELSE NaNQ])]

CalculatePreviousClose(v, rows) ==
    CASE v = "run" -> CalculatePreviousCloseRun(rows)
      [] v = "run3" -> CalculatePreviousCloseRun3(rows)
      [] v = "run4" -> CalculatePreviousCloseRun4(rows)

\* The columns calculate_previous_close reads.
PrevCloseCols(v) == IF v = "run3" THEN {"Close", "High", "Volume"} ELSE {"Close"}

(***************************************************************************)
(* detect_gap_ups                                                          *)
(***************************************************************************)
\* run.py: df['Date'].isin(df.groupby('Date').first().index): the index of
\* first() is the dates themselves.
DetectGapUpsRun(rows) ==
    [i \in 1..Len(rows) |->
        With(rows[i],
             [GAPUP |-> rows[i].Date \in Dates(rows)
                        /\ Gt(rows[i].Open, rows[i].Prev_Day_Close)])]

\* df.index.isin(df.groupby('Date').head(1).index)
IsFirstCandle(rows, i) ==
    LET fc == FirstCandles(rows) IN rows[i].ts \in {fc[k].ts : k \in 1..Len(fc)}

MinGapPercent == 1

DetectGapUpsRun3(rows) ==
    [i \in 1..Len(rows) |->
        With(rows[i],
             [GAPUP |-> /\ IsFirstCandle(rows, i)
                        /\ Gt(rows[i].Open, rows[i].Prev_Day_Close)
                        /\ ~IsNa(rows[i].Prev_Day_Close)
                        /\ QGe(PctChange(rows[i].Open, rows[i].Prev_Day_Close), MinGapPercent)
                        /\ GtQ(rows[i].Volume, rows[i].Volume_Avg)
                        /\ ~IsNaQ(rows[i].Volume_Avg)])]

\* .round(2) of a difference of whole numbers
Round2(x) == x

DetectGapUpsRun4(rows) ==
    [i \in 1..Len(rows) |->
        LET valid == /\ IsFirstCandle(rows, i)
                     /\ Gt(rows[i].Open, rows[i].Prev_Day_Close)
                     /\ ~IsNa(rows[i].Prev_Day_Close)
        IN With(rows[i],
                [GAPUP |-> valid,
                 GAPAMOUNT |-> IF valid
                               THEN Round2(Sub(rows[i].Open, rows[i].Prev_Day_Close))
                               ELSE 0])]

DetectGapUps(v, rows) ==
    CASE v = "run" -> DetectGapUpsRun(rows)
      [] v = "run3" -> DetectGapUpsRun3(rows)
      [] v = "run4" -> DetectGapUpsRun4(rows)

(***************************************************************************)
(* calculate_gap_percentage                                                *)
(***************************************************************************)
\* GAPPERCENT: the percentage, 0 where GAPUP is false
GapPercent(gapup, open, prevClose) ==
    IF gapup THEN PctChange(open, prevClose) ELSE ZeroQ

\* The top band opening above 20 instead of at 20.
GapSizeAbove20(gapup, p) ==
    IF gapup /\ ~QLt(p, 20) /\ ~QEq(p, 20) THEN "Extreme"
    ELSE IF gapup /\ QGe(p, 10) /\ QLt(p, 20) THEN "Aggressive"
    ELSE IF gapup /\ QGe(p, 7) /\ QLt(p, 10) THEN "Moderate"
    ELSE IF gapup /\ QGe(p, 5) /\ QLt(p, 7) THEN "Large"
    ELSE IF gapup /\ QLt(p, 5) THEN "Small"
    ELSE "None"

\* The labels are assigned band by band, each assignment overwriting the
\* ones before it.
GapSize(gapup, p) ==
    IF gapup /\ QGe(p, 20) THEN "Extreme"
    ELSE IF gapup /\ QGe(p, 10) /\ QLt(p, 20) THEN "Aggressive"
    ELSE IF gapup /\ QGe(p, 7) /\ QLt(p, 10) THEN "Moderate"
    ELSE IF gapup /\ QGe(p, 5) /\ QLt(p, 7) THEN "Large"
    ELSE IF gapup /\ QLt(p, 5) THEN "Small"
    ELSE "None"

\* Full from open >= prev_day_high on.
GapTypeFromEqual(gapup, open, prevHigh) ==
    IF gapup /\ Gt(prevHigh, open) /\ ~IsNa(prevHigh) THEN "Partial"
    ELSE IF gapup /\ Le(prevHigh, open) /\ ~IsNa(prevHigh) THEN "Full"
    ELSE "None"

GapType(gapup, open, prevHigh) ==
    IF gapup /\ Le(open, prevHigh) /\ ~IsNa(prevHigh) THEN "Partial"
    ELSE IF gapup /\ Gt(open, prevHigh) /\ ~IsNa(prevHigh) THEN "Full"
    ELSE "None"

CalculateGapPercentage(v, rows) ==
    [i \in 1..Len(rows) |->
        LET p == GapPercent(rows[i].GAPUP, rows[i].Open, rows[i].Prev_Day_Close)
            size == [GAPPERCENT |-> p, GAPSIZE |-> GapSize(rows[i].GAPUP, p)]
        IN IF v = "run3"
           THEN With(rows[i],
                     With(size, [GAPTYPE |-> GapType(rows[i].GAPUP, rows[i].Open,
                                                     rows[i].Prev_Day_High)]))
           ELSE With(rows[i], size)]

\* clean_temporary_columns (run.py; commented out in run3.py and run4.py)
CleanTemporaryColumns(rows) ==
    [i \in 1..Len(rows) |-> Without(rows[i], {"Prev_Day_Close", "Date"})]

(***************************************************************************)
(* app.py                                                                  *)
(***************************************************************************)
\* Prev_Close = Close.shift(1); GAPUP; GAPPERCENT; drop Prev_Close
AppAnnotateRows(rows) ==
    [i \in 1..Len(rows) |->
        LET prev == IF i = 1 THEN NaN ELSE rows[i - 1].Close
            gapup == Gt(rows[i].Open, prev)
        IN With(rows[i], [GAPUP |-> gapup,
                          GAPPERCENT |-> GapPercent(gapup, rows[i].Open, prev)])]

(***************************************************************************)
(* identify_gap_ups, a step at a time                                      *)
(***************************************************************************)
Raise(e) ==
    /\ pc' = "raised"
    /\ exc' = e
    /\ UNCHANGED <<variant, file, df, printed, out, outDir>>

\* df = load_stock_data(ticker, input_folder)
LoadStockData ==
    /\ pc = "start"
    /\ variant # "app"
    /\ IF LoadError(variant, file) # "none"
       THEN Raise(LoadError(variant, file))
       ELSE /\ IF variant = "run"
               THEN df' = ReadCsv(file) /\ printed' = printed
               ELSE \E sorted \in SortIndex(ReadCsv(file)) :
                       /\ df' = Normalize(variant, sorted)
                       /\ printed' = printed \o LoadPrints(variant, sorted)
            /\ pc' = "loaded"
            /\ UNCHANGED <<variant, file, exc, out, outDir>>

\* df = calculate_previous_close(df)
StepPreviousClose ==
    /\ pc = "loaded"
    /\ variant # "app"
    /\ IF ~(PrevCloseCols(variant) \subseteq file.cols)
       THEN Raise("KeyError")
       ELSE /\ df' = CalculatePreviousClose(variant, df)
            /\ pc' = "prev"
            /\ UNCHANGED <<variant, file, exc, printed, out, outDir>>

\* df = detect_gap_ups(df)
StepDetectGapUps ==
    /\ pc = "prev"
    /\ IF "Open" \notin file.cols
       THEN Raise("KeyError")
       ELSE /\ df' = DetectGapUps(variant, df)
            /\ pc' = "detected"
            /\ UNCHANGED <<variant, file, exc, printed, out, outDir>>

\* df = calculate_gap_percentage(df)
StepGapPercentage ==
    /\ pc = "detected"
    /\ df' = CalculateGapPercentage(variant, df)
    /\ pc' = "classified"
    /\ UNCHANGED <<variant, file, exc, printed, out, outDir>>

\* save_gap_data(df, ticker, output_folder), after clean_temporary_columns in
\* run.py: os.makedirs, then df.to_csv
SaveGapData ==
    /\ pc = "classified"
    /\ variant # "app"
    /\ IF ~file.writable
       THEN Raise("OSError")
       ELSE /\ df' = IF variant = "run" THEN CleanTemporaryColumns(df) ELSE df
            /\ outDir' = TRUE
            /\ out' = <<df'>>
            /\ pc' = "saved"
            /\ UNCHANGED <<variant, file, exc, printed>>

GapCount(rows) == Cardinality({i \in 1..Len(rows) : rows[i].GAPUP})

\* the prints that end the try block
ReportSuccess ==
    /\ pc = "saved"
    /\ variant # "app"
    /\ printed' = printed \o <<<<"Successfully processed">>>>
                     \o (IF variant = "run3" THEN <<<<"Detected", GapCount(df)>>>> ELSE <<>>)
    /\ pc' = "done"
    /\ UNCHANGED <<variant, file, df, exc, out, outDir>>

\* the except clauses of run.py, run3.py and run4.py
HandleException ==
    /\ pc = "raised"
    /\ variant # "app"
    /\ printed' = Append(printed,
                         CASE exc = "FileNotFoundError" -> <<"Error: not found">>
                           [] exc = "KeyError" -> <<"Error: Required column not found">>
                           [] OTHER -> <<"Error processing">>)
    /\ pc' = "failed"
    /\ UNCHANGED <<variant, file, df, exc, out, outDir>>

\* app.py: os.makedirs(output_folder, exist_ok=True)
AppMakeDirs ==
    /\ pc = "start"
    /\ variant = "app"
    /\ IF ~file.writable
       THEN Raise("OSError")
       ELSE /\ outDir' = TRUE
            /\ pc' = "dir"
            /\ UNCHANGED <<variant, file, df, exc, printed, out>>

\* app.py: pd.read_csv(input_path, index_col=..., parse_dates=True)
AppReadCsv ==
    /\ pc = "dir"
    /\ IF LoadError(variant, file) # "none"
       THEN Raise(LoadError(variant, file))
       ELSE /\ df' = ReadCsv(file)
            /\ pc' = "loaded"
            /\ UNCHANGED <<variant, file, exc, printed, out, outDir>>

\* app.py: the column computations
AppAnnotate ==
    /\ pc = "loaded"
    /\ variant = "app"
    /\ IF ~({"Close", "Open"} \subseteq file.cols)
       THEN Raise("KeyError")
       ELSE /\ df' = AppAnnotateRows(df)
            /\ pc' = "classified"
            /\ UNCHANGED <<variant, file, exc, printed, out, outDir>>

\* app.py: df.to_csv(output_path)
AppToCsv ==
    /\ pc = "classified"
    /\ variant = "app"
    /\ out' = <<df>>
    /\ pc' = "saved"
    /\ UNCHANGED <<variant, file, df, exc, printed, outDir>>

Start(profiles) ==
    /\ variant \in Variants
    /\ \/ \E k \in 1..MaxRows : \E rows \in [1..k -> CandlesOf(profiles)] :
             file = GoodFile(rows)
       \/ file \in BandFiles
       \/ file \in BrokenFiles
    /\ pc = "start"
    /\ df = <<>>
    /\ exc = "none"
    /\ printed = <<>>
    /\ out = <<>>
    /\ outDir = FALSE

Init == Start(Profiles)

Next ==
    \/ LoadStockData
    \/ StepPreviousClose
    \/ StepDetectGapUps
    \/ StepGapPercentage
    \/ SaveGapData
    \/ ReportSuccess
    \/ HandleException
    \/ AppMakeDirs
    \/ AppReadCsv
    \/ AppAnnotate
    \/ AppToCsv

Spec == Init /\ [][Next]_vars

\* The same program on raw rows with blank cells.
InitLoad == Start(BlankProfiles)
SpecLoad == InitLoad /\ [][Next]_vars

\* calculate_gap_percentage of run3.py as a function of its argument: a
\* frame as calculate_previous_close leaves it, with any GAPUP column.
StrictlyIncreasing(rows) == \A i \in 1..(Len(rows) - 1) : TsLt(rows[i].ts, rows[i + 1].ts)

\* The stamps of S in ascending order.
RECURSIVE Ascending(_)
Ascending(S) ==
    IF S = {} THEN <<>>
    ELSE LET m == CHOOSE x \in S : \A y \in S : ~TsLt(y, x)
         IN <<m>> \o Ascending(S \ {m})

InitClassify ==
    /\ variant = "run3"
    /\ \E S \in {T \in SUBSET Stamps : T # {} /\ Cardinality(T) <= MaxRows} :
       \E prof \in [S -> HighProfiles] :
       \E stamps \in {Ascending(S)} :
       \E rows \in {[i \in 1..Len(stamps) |->
                        Candle(stamps[i], prof[stamps[i]][1], prof[stamps[i]][2],
                               prof[stamps[i]][3], prof[stamps[i]][4],
                               prof[stamps[i]][5])]} :
       \E frame \in {CalculatePreviousCloseRun3(Normalize("run3", rows))} :
       \E g \in [1..Len(rows) -> BOOLEAN] :
          /\ file = GoodFile(rows)
          /\ df = [i \in 1..Len(rows) |-> With(frame[i], [GAPUP |-> g[i]])]
    /\ pc = "detected"
    /\ exc = "none"
    /\ printed = <<>>
    /\ out = <<>>
    /\ outDir = FALSE

NextClassify == StepGapPercentage

SpecClassify == InitClassify /\ [][NextClassify]_vars

(***************************************************************************)
(* What the claims speak of, stated on the candles themselves.             *)
(***************************************************************************)
Rows == 1..Len(df)
DayOfRow(i) == df[i].ts.d
\* the chronologically first candle of its calendar day
ChronFirst(i) == \A j \in Rows : DayOfRow(j) = DayOfRow(i) => ~TsLt(df[j].ts, df[i].ts)
\* the days of the data before the day of row i
PriorDays(i) == {DayOfRow(j) : j \in {k \in Rows : DayOfRow(k) < DayOfRow(i)}}
HasPrevDay(i) == PriorDays(i) # {}
PrevDay(i) == Max(PriorDays(i))
\* j is the chronologically last candle of day d
ChronLast(j, d) ==
    /\ DayOfRow(j) = d
    /\ \A k \in Rows : DayOfRow(k) = d => ~TsLt(df[j].ts, df[k].ts)
\* j is the chronologically first candle of day d
ChronFirstOf(j, d) == DayOfRow(j) = d /\ ChronFirst(j)

AfterPrev == {"prev", "detected", "classified", "saved", "done"}
AfterDetect == {"detected", "classified", "saved", "done"}
AfterClassify == {"classified", "saved", "done"}

\* C1: in run.py, run3.py and run4.py a candle that is not the first of its
\* day, or whose day has no day before it in the data, is never flagged.
C1_OnlyFirstCandlesFlagged ==
    (variant \in {"run", "run3", "run4"} /\ pc \in AfterDetect) =>
        \A i \in Rows : (~ChronFirst(i) \/ ~HasPrevDay(i)) => ~df[i].GAPUP

\* C2: after calculate_previous_close (run3.py, run4.py) the first candle of
\* every day but the first carries the close of the last candle of the
\* nearest earlier day of the data, and the first day's first candle carries
\* null.
C2_PrevDayCloseIsLastClose ==
    (variant \in {"run3", "run4"} /\ pc \in AfterPrev) =>
        \A i \in Rows : ChronFirst(i) =>
            IF HasPrevDay(i)
            THEN \E j \in Rows : /\ ChronLast(j, PrevDay(i))
                                 /\ df[i].Prev_Day_Close = df[j].Close
            ELSE df[i].Prev_Day_Close = NaN

\* A day's first candle after a calendar gap, the day before holding two
\* candles with different closes.
C2_Witness ==
    /\ variant = "run3"
    /\ pc = "prev"
    /\ \E i, j, k \in Rows :
          /\ ChronFirst(i) /\ HasPrevDay(i)
          /\ DayOfRow(i) - PrevDay(i) > 1
          /\ ChronLast(j, PrevDay(i))
          /\ DayOfRow(k) = PrevDay(i) /\ df[k].Close # df[j].Close
          /\ df[i].Prev_Day_Close = df[j].Close

\* C5: calculate_gap_percentage of run.py and run4.py gives every flagged
\* row the percentage (open - prev_day_close) / prev_day_close * 100 and
\* the one label of the band it lies in.
C5_GapSizeBands ==
    (variant \in {"run", "run4"} /\ pc = "classified") =>
        \A i \in Rows : df[i].GAPUP =>
            LET d == df[i].Prev_Day_Close
                n == (df[i].Open - d) * 100
                label == df[i].GAPSIZE
            IN /\ df[i].GAPPERCENT.den # 0
               /\ df[i].GAPPERCENT.num * d = n * df[i].GAPPERCENT.den
               /\ label \in {"Small", "Large", "Moderate", "Aggressive", "Extreme"}
               /\ label = "Small" <=> n < 5 * d
               /\ label = "Large" <=> (5 * d <= n /\ n < 7 * d)
               /\ label = "Moderate" <=> (7 * d <= n /\ n < 10 * d)
               /\ label = "Aggressive" <=> (10 * d <= n /\ n < 20 * d)
               /\ label = "Extreme" <=> 20 * d <= n

\* Open 130 against a previous close of 100: 30 percent, Extreme.
C5_Witness ==
    /\ variant = "run4"
    /\ pc = "classified"
    /\ \E i \in Rows : /\ df[i].GAPUP
                       /\ df[i].Open = 130 /\ df[i].Prev_Day_Close = 100
                       /\ QEq(df[i].GAPPERCENT, 30)
                       /\ df[i].GAPSIZE = "Extreme"

\* the first-candle volumes of the most recent 20 days before the day of
\* row i, summed and counted
RecentDays(i) == {d \in PriorDays(i) : Cardinality({e \in PriorDays(i) : e > d}) < 20}
RECURSIVE SumOver(_, _)
SumOver(S, f) ==
    IF S = {} THEN 0
    ELSE LET x == CHOOSE y \in S : TRUE IN f[x] + SumOver(S \ {x}, f)
OpeningVolume(d) == df[CHOOSE j \in Rows : ChronFirstOf(j, d)].Volume
RecentVolumeSum(i) == SumOver(RecentDays(i), [d \in RecentDays(i) |-> OpeningVolume(d)])
LastClose(d) == df[CHOOSE j \in Rows : ChronLast(j, d)].Close

\* C3: run3.py flags a candle exactly when it is the first of its day, an
\* earlier day exists, open exceeds that day's last close by at least 1
\* percent, and its volume exceeds the mean first-candle volume of the
\* earlier days.
C3_Run3FlagsExactlyTheGaps ==
    (variant = "run3" /\ pc \in AfterDetect) =>
        \A i \in Rows :
            df[i].GAPUP <=>
                /\ ChronFirst(i)
                /\ HasPrevDay(i)
                /\ df[i].Open > LastClose(PrevDay(i))
                /\ (df[i].Open - LastClose(PrevDay(i))) * 100 >= LastClose(PrevDay(i))
                /\ df[i].Volume * Cardinality(RecentDays(i)) > RecentVolumeSum(i)

\* C4: run3.py attaches to the first candle of every day but the first the
\* mean first-candle volume of the (at most 20) days before it, and null to
\* every other candle.
C4_VolumeAvgIsTrailingMean ==
    (variant = "run3" /\ pc \in AfterPrev) =>
        \A i \in Rows :
            IF ChronFirst(i) /\ HasPrevDay(i)
            THEN /\ df[i].Volume_Avg.den # 0
                 /\ df[i].Volume_Avg.num * Cardinality(RecentDays(i))
                        = RecentVolumeSum(i) * df[i].Volume_Avg.den
            ELSE df[i].Volume_Avg.den = 0

\* C6: in run.py, run3.py and run4.py a row that is not flagged carries
\* gap_percent 0, gap_size None, gap_type None and gap_amount 0, and the
\* rows not flagged include every candle that is not the first of its day
\* and every candle of the first day.
C6_UnflaggedRowsCarryDefaults ==
    (variant \in {"run", "run3", "run4"} /\ pc \in AfterClassify) =>
        \A i \in Rows :
            /\ ~df[i].GAPUP =>
                  /\ QEq(df[i].GAPPERCENT, 0)
                  /\ df[i].GAPSIZE = "None"
                  /\ variant = "run3" => df[i].GAPTYPE = "None"
                  /\ variant = "run4" => df[i].GAPAMOUNT = 0
            /\ (~ChronFirst(i) \/ ~HasPrevDay(i)) => ~df[i].GAPUP

\* C7: run3.py labels a flagged row whose prev_day_high is known Full when
\* open > prev_day_high and Partial when open <= prev_day_high,
\* prev_day_high being the high of the last candle of the day before; the
\* label is None exactly for rows not flagged or without prev_day_high.
C7_GapTypeByPrevDayHigh ==
    (variant = "run3" /\ pc \in AfterClassify) =>
        \A i \in Rows :
            /\ (ChronFirst(i) /\ HasPrevDay(i)) =>
                  \E j \in Rows : /\ ChronLast(j, PrevDay(i))
                                  /\ df[i].Prev_Day_High = df[j].High
            /\ (df[i].GAPUP /\ df[i].Prev_Day_High # NaN) =>
                  /\ df[i].GAPTYPE = "Full" <=> df[i].Open > df[i].Prev_Day_High
                  /\ df[i].GAPTYPE = "Partial" <=> df[i].Open <= df[i].Prev_Day_High
            /\ df[i].GAPTYPE = "None" <=> (~df[i].GAPUP \/ df[i].Prev_Day_High = NaN)

\* A flagged first candle opening above the high of the last candle of the
\* day before, labelled Full, beside one opening at that high, labelled
\* Partial.
C7_Witness ==
    /\ variant = "run3"
    /\ pc = "classified"
    /\ \E i, j \in Rows :
          /\ df[i].GAPUP /\ ChronFirst(i) /\ HasPrevDay(i)
          /\ ChronLast(j, PrevDay(i))
          /\ df[i].Prev_Day_High = df[j].High
          /\ df[i].Open > df[j].High
          /\ df[i].GAPTYPE = "Full"
    /\ \E i \in Rows :
          /\ df[i].GAPUP /\ df[i].Open = df[i].Prev_Day_High
          /\ df[i].GAPTYPE = "Partial"

\* C8: load_stock_data of run3.py and run4.py returns strictly increasing
\* timestamps, exactly the distinct timestamps of the file, and for each a
\* whole row of the file.
C8_LoadKeepsWholeCandles ==
    (variant \in {"run3", "run4"} /\ pc = "loaded") =>
        /\ StrictlyIncreasing(df)
        /\ {df[k].ts : k \in Rows} = {file.rows[i].ts : i \in 1..Len(file.rows)}
        /\ \A k \in Rows : \E i \in 1..Len(file.rows) : df[k] = ReadCsv(file)[i]

ErrorMessages == {<<"Error: not found">>, <<"Error: Required column not found">>,
                  <<"Error processing">>}

\* C9: a run that ends after a stage failed has printed an error message
\* and written no output, and the output is written only once every stage
\* has succeeded, nothing changing after it.
C9_FailuresCaughtNoPartialOutput ==
    /\ (exc # "none" /\ ~ENABLED Next) =>
          /\ printed # <<>>
          /\ printed[Len(printed)] \in ErrorMessages
          /\ out = <<>>
    /\ out # <<>> => (pc \in {"saved", "done"} /\ exc = "none" /\ out[1] = df)

====
